---------------------------- MODULE Spec2Model ----------------------------
(***************************************************************************)
(* A model of the idiom_game plugin (src/idiom_game.py): the per-user game *)
(* sessions, the score ledger and its file, the name map and its file, the *)
(* daily-window flag and the command handler on_handle_context.            *)
(*                                                                         *)
(* Python dicts are modelled two ways.  self.scores is iterated by the     *)
(* code (sorted(self.scores.items(), ...)), so it is a sequence of         *)
(* <<key, value>> pairs in insertion order.  self.current_games and        *)
(* self.usernames are only looked up by key, so each is a function whose   *)
(* DOMAIN is the set of keys present.                                      *)
(*                                                                         *)
(* Reply texts are records: "text" names the template of the source and    *)
(* the other fields are the values the template interpolates.              *)
(***************************************************************************)
EXTENDS Integers, Sequences, FiniteSets, TLC

VARIABLES
    questions,           \* self.questions: the question bank (a sequence)
    current_games,       \* self.current_games: session_id -> game_info
    scores,              \* self.scores: <<session_id, total>> pairs
    usernames,           \* self.usernames: session_id -> nickname
    is_daily_game_time,  \* self.is_daily_game_time
    scores_file,         \* what scores.json holds on disk
    usernames_file,      \* what usernames.json holds on disk
    reply,               \* e_context['reply'] of the last delivered message
    action,              \* e_context.action of the last delivered message
    raised,              \* whether the last call of the handler raised
    in_window,           \* the wall clock is between 18:00 and 23:59
    tally,               \* observer: per live session, the correct answers
                         \* and the skips handled since its Start
    step,                \* observer: the position in a scripted scenario
    shadow,              \* a second object, fed the same messages
    round_start,         \* observer: per user, the total the user had at
                         \* the Start of the user's last round
    threads              \* the calls of the handler that are in progress,
                         \* each with its position and its local variables

vars == <<questions, current_games, scores, usernames, is_daily_game_time,
          scores_file, usernames_file, reply, action, raised, in_window,
          tally, step, shadow, round_start, threads>>

----------------------------------------------------------------------------
(* Program constants *)

\* the round length: random.sample(..., 3), "len(self.questions) < 3"
QuestionsPerRound == 3
\* self.add_score(session_id, 3)
CorrectPoints == 3
\* self.add_score(session_id, -2)
SkipPoints == -2
\* get_top_players(self, limit=10)
TopLimit == 10

(* Bounds of the model *)

\* ledger totals are kept within -MaxScore .. MaxScore
MaxScore == 4

\* the session ids the host delivers messages for
Users == {"u1"}
\* the nicknames a message may carry
Nicknames == {"amy"}
\* self.usernames.get(session_id, <default>) and kwargs...get(..., <default>)
UnknownUser == "unknown_user"
\* the sizes of the question bank questions.json may hold
BankSizes == {0, 2, 3}

None == "None"

----------------------------------------------------------------------------
(* dict helpers for the insertion-ordered self.scores *)

\* key in d
HasKey(d, k) == \E i \in DOMAIN d : d[i][1] = k

\* d.get(k, default)
DictGet(d, k, default) ==
    IF HasKey(d, k) THEN d[CHOOSE i \in DOMAIN d : d[i][1] = k][2] ELSE default

\* d[k] = v: an existing key keeps its position, a new key is appended
DictSet(d, k, v) ==
    IF HasKey(d, k)
    THEN [i \in DOMAIN d |-> IF d[i][1] = k THEN <<k, v>> ELSE d[i]]
    ELSE Append(d, <<k, v>>)

\* the keys of d
Keys(d) == {d[i][1] : i \in DOMAIN d}

\* m[k] = v for a dict that is only looked up by key
MapSet(m, k, v) == [x \in DOMAIN m \cup {k} |-> IF x = k THEN v ELSE m[x]]

\* del m[k]
MapDel(m, k) == [x \in DOMAIN m \ {k} |-> m[x]]

EmptyMap == [x \in {} |-> None]

----------------------------------------------------------------------------
(* files: a file is missing, holds a JSON document, or holds a torn one *)

FileMissing == [state |-> "missing", data |-> None]
FileCorrupt == [state |-> "corrupt", data |-> None]
FileOk(d) == [state |-> "ok", data |-> d]

\* what open(file, "w") + json.dump leaves on disk, by outcome:
\*   "ok"       the document is written
\*   "no_open"  open() raised: the file is as before
\*   "torn"     open() truncated the file and the dump raised midway
WriteOutcomes == {"ok", "no_open", "torn"}

WriteFile(file, d, outcome) ==
    CASE outcome = "ok" -> FileOk(d)
      [] outcome = "no_open" -> file
      [] outcome = "torn" -> FileCorrupt

----------------------------------------------------------------------------
(* IdiomGame: the object is the record self *)

\* json.dump writes an int as its decimal numeral: a sign and the digits
RECURSIVE Digits(_)
Digits(n) == IF n < 10 THEN <<n>> ELSE Append(Digits(n \div 10), n % 10)

json_number(v) ==
    [negative |-> v < 0, digits |-> Digits(IF v < 0 THEN -v ELSE v)]

\* json.load reads a numeral back as an int
RECURSIVE DigitsValue(_)
DigitsValue(digits) ==
    IF digits = <<>> THEN 0
    ELSE 10 * DigitsValue(SubSeq(digits, 1, Len(digits) - 1))
            + digits[Len(digits)]

json_int(number) ==
    IF number.negative THEN -DigitsValue(number.digits)
    ELSE DigitsValue(number.digits)

\* json.dump(self.scores, f): the members of the object, one for each key
\* of the dict, in the order of the dict
json_dump_scores(d) == [i \in DOMAIN d |-> <<d[i][1], json_number(d[i][2])>>]

\* json.load(f) of such a document: the dict of its first count members,
\* a later member of a key replacing the value of an earlier one
RECURSIVE LoadMembers(_, _)
LoadMembers(doc, count) ==
    IF count = 0 THEN <<>>
    ELSE DictSet(LoadMembers(doc, count - 1), doc[count][1],
                 json_int(doc[count][2]))

json_load_scores(doc) == LoadMembers(doc, Len(doc))

\* json.dump(self.usernames, f) and json.load(f): the members of the object
json_dump_names(m) == {<<k, m[k]>> : k \in DOMAIN m}
json_load_names(doc) ==
    [k \in {member[1] : member \in doc} |->
        (CHOOSE member \in doc : member[1] = k)[2]]

\* load_scores: a missing file gives {}, an unreadable one is logged and gives {}
load_scores(file) ==
    IF file.state = "ok" THEN json_load_scores(file.data) ELSE <<>>

\* load_usernames: as load_scores
load_usernames(file) ==
    IF file.state = "ok" THEN json_load_names(file.data) ELSE EmptyMap

\* __init__ with the flag set from the time of day
IdiomGame_init_by_clock(bank, sfile, ufile) ==
    [questions          |-> bank,
     current_games      |-> EmptyMap,
     scores             |-> load_scores(sfile),
     is_daily_game_time |-> in_window,
     usernames          |-> load_usernames(ufile),
     scores_file        |-> sfile,
     usernames_file     |-> ufile]

\* __init__: the state after construction, from what is on disk
IdiomGame_init(bank, sfile, ufile) ==
    [questions          |-> bank,
     current_games      |-> EmptyMap,
     scores             |-> load_scores(sfile),
     is_daily_game_time |-> FALSE,
     usernames          |-> load_usernames(ufile),
     scores_file        |-> sfile,
     usernames_file     |-> ufile]

\* start_daily_game
start_daily_game(self) == [self EXCEPT !.is_daily_game_time = TRUE]

\* end_daily_game
end_daily_game(self) == [self EXCEPT !.is_daily_game_time = FALSE]

\* save_scores that, when the write fails, falls back to what is on disk
save_scores_keeps_disk(self, outcome) ==
    IF outcome = "ok"
    THEN [self EXCEPT !.scores_file =
                        WriteFile(@, json_dump_scores(self.scores), outcome)]
    ELSE [self EXCEPT !.scores = load_scores(self.scores_file)]

\* save_scores: a failed write is logged and swallowed
save_scores(self, outcome) ==
    [self EXCEPT !.scores_file =
                    WriteFile(@, json_dump_scores(self.scores), outcome)]

\* add_score without its last line: the ledger changes and is not saved
add_score_unsaved(self, session_id, points, outcome) ==
    IF ~self.is_daily_game_time
    THEN self
    ELSE LET created == IF HasKey(self.scores, session_id)
                        THEN self.scores
                        ELSE DictSet(self.scores, session_id, 0)
         IN  [self EXCEPT !.scores =
                    DictSet(created, session_id,
                            DictGet(created, session_id, 0) + points)]

\* add_score without its first two lines: the points count at any time
add_score_any_time(self, session_id, points, outcome) ==
    LET created == IF HasKey(self.scores, session_id)
                   THEN self.scores
                   ELSE DictSet(self.scores, session_id, 0)
        added == DictSet(created, session_id,
                         DictGet(created, session_id, 0) + points)
    IN  [self EXCEPT !.scores = added,
                     !.scores_file =
                        WriteFile(@, json_dump_scores(added), outcome)]

\* add_score
add_score(self, session_id, points, outcome) ==
    IF ~self.is_daily_game_time
    THEN self
    ELSE LET created == IF HasKey(self.scores, session_id)
                        THEN self.scores
                        ELSE DictSet(self.scores, session_id, 0)
             added == DictSet(created, session_id,
                              DictGet(created, session_id, 0) + points)
         IN  save_scores([self EXCEPT !.scores = added], outcome)

\* get_score
get_score(self, session_id) == DictGet(self.scores, session_id, 0)

\* get_random_questions: random.sample(self.questions, count) returns one of
\* the sequences of count elements at distinct positions of the bank
RECURSIVE Arrangements(_, _)
Arrangements(positions, count) ==
    IF count = 0
    THEN {<<>>}
    ELSE UNION {{<<p>> \o rest : rest \in Arrangements(positions \ {p}, count - 1)}
                : p \in positions}

get_random_questions(self, count) ==
    {[i \in 1..count |-> self.questions[ps[i]]]
        : ps \in Arrangements(DOMAIN self.questions, count)}

\* save_usernames: a failed write is logged and swallowed
save_usernames(self, outcome) ==
    [self EXCEPT !.usernames_file =
                    WriteFile(@, json_dump_names(self.usernames), outcome)]

\* update_username
update_username(self, session_id, username, outcome) ==
    IF session_id \notin DOMAIN self.usernames
       \/ self.usernames[session_id] # username
    THEN save_usernames(
            [self EXCEPT !.usernames = MapSet(@, session_id, username)], outcome)
    ELSE self

\* get_username
get_username(self, session_id) ==
    IF session_id \in DOMAIN self.usernames
    THEN self.usernames[session_id]
    ELSE UnknownUser

\* sorted(items, key=lambda x: x[1], reverse=True): a stable sort, so items of
\* equal total keep the order they have in items
RECURSIVE SortedByScoreDesc(_)
SortedByScoreDesc(items) ==
    IF items = <<>>
    THEN <<>>
    ELSE LET n == Len(items)
             front == SortedByScoreDesc(SubSeq(items, 1, n - 1))
             x == items[n]
             \* x goes after every item of a total >= its own
             k == Cardinality({i \in DOMAIN front : front[i][2] >= x[2]})
         IN  SubSeq(front, 1, k) \o <<x>> \o SubSeq(front, k + 1, Len(front))

\* sorted_scores[:limit]
Take(s, limit) == SubSeq(s, 1, IF Len(s) < limit THEN Len(s) ELSE limit)

\* get_top_players
get_top_players(self, limit) ==
    LET sorted_scores == SortedByScoreDesc(self.scores)
        top_n == Take(sorted_scores, limit)
    IN  [i \in DOMAIN top_n |-> <<get_username(self, top_n[i][1]), top_n[i][2]>>]

----------------------------------------------------------------------------
(* Replies.  e_context['reply'] is modelled as a sequence of Reply records: *)
(* <<>> when the handler sets none, one element for a single Reply, and    *)
(* the list as it is when the handler sets a list.                         *)

NoReply == <<>>

\* Reply(ReplyType.TEXT, ...) of each template of the source
TextNoRank == [type |-> "TEXT", text |-> "no_rank_data"]
TextRank(top_players) ==
    [type |-> "TEXT", text |-> "rank", entries |-> top_players]
TextScore(score, rank) ==
    [type |-> "TEXT", text |-> "score", score |-> score, rank |-> rank]
TextBankFailed == [type |-> "TEXT", text |-> "bank_failed"]
TextAlready == [type |-> "TEXT", text |-> "already_in_game"]
TextInfoFirst(scored) ==
    [type |-> "TEXT", text |-> "question_info_first", number |-> 1,
     scored |-> scored]
TextInfo(number) ==
    [type |-> "TEXT", text |-> "question_info", number |-> number]
TextNoGame == [type |-> "TEXT", text |-> "no_game"]
TextWrong == [type |-> "TEXT", text |-> "wrong_answer"]
TextCorrect(answer, score) ==
    [type |-> "TEXT", text |-> "correct", answer |-> answer, score |-> score]
TextCorrectEnd(answer, score, round_score) ==
    [type |-> "TEXT", text |-> "correct_round_over", answer |-> answer,
     score |-> score, round_score |-> round_score]
TextEnd(answer, round_score) ==
    [type |-> "TEXT", text |-> "game_over", answer |-> answer,
     round_score |-> round_score]
TextSkip(score) == [type |-> "TEXT", text |-> "skipped", score |-> score]
TextSkipEnd(score, round_score) ==
    [type |-> "TEXT", text |-> "skipped_round_over", score |-> score,
     round_score |-> round_score]
\* Reply(ReplyType.IMAGE_PATH, .../images/<question["image"]>)
ImageReply(image) == [type |-> "IMAGE_PATH", image |-> image]

\* what a call of on_handle_context leaves: the object, e_context['reply'],
\* e_context.action, and whether an exception left the handler
Handled(self, rep, act) ==
    [self |-> self, reply |-> rep, action |-> act, raised |-> FALSE]
Raised(self) ==
    [self |-> self, reply |-> NoReply, action |-> "CONTINUE", raised |-> TRUE]

----------------------------------------------------------------------------
(* on_handle_context, branch by branch *)

\* game["questions"][game["current_index"]] (Python indexes from 0)
CurrentQuestion(game) == game.questions[game.current_index + 1]

\* content == "#排行"
RankBranch(self) ==
    LET top_players == get_top_players(self, TopLimit)
    IN  Handled(self,
                IF top_players = <<>> THEN <<TextNoRank>>
                ELSE <<TextRank(top_players)>>,
                "BREAK_PASS")

\* RankOf with enumerate(all_scores) counting from 0
RankOf_from_zero(self, session_id) ==
    LET all_scores == SortedByScoreDesc(self.scores)
        hits == {i \in DOMAIN all_scores : all_scores[i][1] = session_id}
    IN  IF hits = {} THEN 0
        ELSE (CHOOSE i \in hits : \A j \in hits : i <= j) - 1

\* next((i for i, (sid, _) in enumerate(all_scores, 1) if sid == session_id), 0)
RankOf(self, session_id) ==
    LET all_scores == SortedByScoreDesc(self.scores)
        hits == {i \in DOMAIN all_scores : all_scores[i][1] = session_id}
    IN  IF hits = {} THEN 0
        ELSE CHOOSE i \in hits : \A j \in hits : i <= j

\* content == "#积分"
ScoreBranch(self, session_id) ==
    Handled(self,
            <<TextScore(get_score(self, session_id), RankOf(self, session_id))>>,
            "BREAK_PASS")

\* StartBranch without the test for a game in progress
StartBranch_starts_over(self, session_id, round_questions) ==
    IF Len(self.questions) < QuestionsPerRound
    THEN Handled(self, <<TextBankFailed>>, "BREAK_PASS")
    ELSE Handled(
            [self EXCEPT !.current_games =
                MapSet(@, session_id, [questions     |-> round_questions,
                                       current_index |-> 0,
                                       score         |-> 0])],
            <<ImageReply(round_questions[1].image),
              TextInfoFirst(self.is_daily_game_time)>>,
            "BREAK_PASS")

\* content == "#猜成语"; round_questions is what random.sample returned
StartBranch(self, session_id, round_questions) ==
    IF Len(self.questions) < QuestionsPerRound
    THEN Handled(self, <<TextBankFailed>>, "BREAK_PASS")
    ELSE IF session_id \in DOMAIN self.current_games
    THEN Handled(self, <<TextAlready>>, "BREAK_PASS")
    ELSE Handled(
            [self EXCEPT !.current_games =
                MapSet(@, session_id, [questions     |-> round_questions,
                                       current_index |-> 0,
                                       score         |-> 0])],
            <<ImageReply(round_questions[1].image),
              TextInfoFirst(self.is_daily_game_time)>>,
            "BREAK_PASS")

\* AnswerCorrect with the round ending one question early
AnswerCorrect_ends_early(self, session_id, answer, outcome) ==
    LET scored == add_score(self, session_id, CorrectPoints, outcome)
        game == [scored.current_games[session_id]
                    EXCEPT !.score = @ + CorrectPoints]
        score == get_score(scored, session_id)
    IN  IF game.current_index < QuestionsPerRound - 2
        THEN LET next_game == [game EXCEPT !.current_index = @ + 1]
             IN  Handled(
                    [scored EXCEPT !.current_games[session_id] = next_game],
                    <<TextCorrect(answer, score),
                      ImageReply(CurrentQuestion(next_game).image),
                      TextInfo(next_game.current_index + 1)>>,
                    "BREAK_PASS")
        ELSE Handled(
                [scored EXCEPT !.current_games = MapDel(@, session_id)],
                <<TextCorrectEnd(answer, score, game.score)>>,
                "BREAK_PASS")

\* AnswerCorrect with the round score raised only when the answer is scored
AnswerCorrect_round_score_gated(self, session_id, answer, outcome) ==
    LET scored == add_score(self, session_id, CorrectPoints, outcome)
        game == [scored.current_games[session_id]
                    EXCEPT !.score = IF self.is_daily_game_time
                                     THEN @ + CorrectPoints ELSE @]
        score == get_score(scored, session_id)
    IN  IF game.current_index < QuestionsPerRound - 1
        THEN LET next_game == [game EXCEPT !.current_index = @ + 1]
             IN  Handled(
                    [scored EXCEPT !.current_games[session_id] = next_game],
                    <<TextCorrect(answer, score),
                      ImageReply(CurrentQuestion(next_game).image),
                      TextInfo(next_game.current_index + 1)>>,
                    "BREAK_PASS")
        ELSE Handled(
                [scored EXCEPT !.current_games = MapDel(@, session_id)],
                <<TextCorrectEnd(answer, score, game.score)>>,
                "BREAK_PASS")

\* content.startswith("#答案 "), the answer matching the current question
AnswerCorrect(self, session_id, answer, outcome) ==
    LET scored == add_score(self, session_id, CorrectPoints, outcome)
        game == [scored.current_games[session_id]
                    EXCEPT !.score = @ + CorrectPoints]
        score == get_score(scored, session_id)
    IN  IF game.current_index < QuestionsPerRound - 1
        THEN LET next_game == [game EXCEPT !.current_index = @ + 1]
             IN  Handled(
                    [scored EXCEPT !.current_games[session_id] = next_game],
                    <<TextCorrect(answer, score),
                      ImageReply(CurrentQuestion(next_game).image),
                      TextInfo(next_game.current_index + 1)>>,
                    "BREAK_PASS")
        ELSE Handled(
                [scored EXCEPT !.current_games = MapDel(@, session_id)],
                <<TextCorrectEnd(answer, score, game.score)>>,
                "BREAK_PASS")

\* AnswerBranch with a wrong answer charged like a skip
AnswerBranch_charges_wrong(self, session_id, answer, outcome) ==
    IF session_id \notin DOMAIN self.current_games
    THEN Handled(self, <<TextNoGame>>, "BREAK_PASS")
    ELSE IF answer = CurrentQuestion(self.current_games[session_id]).answer
    THEN AnswerCorrect(self, session_id, answer, outcome)
    ELSE Handled(add_score(self, session_id, SkipPoints, outcome),
                 <<TextWrong>>, "BREAK_PASS")

\* content.startswith("#答案 ")
AnswerBranch(self, session_id, answer, outcome) ==
    IF session_id \notin DOMAIN self.current_games
    THEN Handled(self, <<TextNoGame>>, "BREAK_PASS")
    ELSE IF answer = CurrentQuestion(self.current_games[session_id]).answer
    THEN AnswerCorrect(self, session_id, answer, outcome)
    ELSE Handled(self, <<TextWrong>>, "BREAK_PASS")

\* content == "#结束"
\* EndBranch that empties the dict of the games
EndBranch_ends_all(self, session_id) ==
    IF session_id \in DOMAIN self.current_games
    THEN LET game == self.current_games[session_id]
         IN  Handled(
                [self EXCEPT !.current_games = EmptyMap],
                <<TextEnd(CurrentQuestion(game).answer, game.score)>>,
                "BREAK_PASS")
    ELSE Handled(self, NoReply, "CONTINUE")

EndBranch(self, session_id) ==
    IF session_id \in DOMAIN self.current_games
    THEN LET game == self.current_games[session_id]
         IN  Handled(
                [self EXCEPT !.current_games = MapDel(@, session_id)],
                <<TextEnd(CurrentQuestion(game).answer, game.score)>>,
                "BREAK_PASS")
    ELSE Handled(self, NoReply, "CONTINUE")

\* SkipBranch that goes on to the last question of the round
SkipBranch_jumps(self, session_id, outcome) ==
    IF session_id \in DOMAIN self.current_games
    THEN LET scored == add_score(self, session_id, SkipPoints, outcome)
             game == scored.current_games[session_id]
             score == get_score(scored, session_id)
         IN  IF game.current_index < QuestionsPerRound - 1
             THEN LET next_game ==
                        [game EXCEPT !.current_index = QuestionsPerRound - 1]
                  IN  Handled(
                        [scored EXCEPT !.current_games[session_id] = next_game],
                        <<TextSkip(score),
                          ImageReply(CurrentQuestion(next_game).image),
                          TextInfo(next_game.current_index + 1)>>,
                        "BREAK_PASS")
             ELSE Handled(
                    [scored EXCEPT !.current_games = MapDel(@, session_id)],
                    <<TextSkipEnd(score, game.score)>>,
                    "BREAK_PASS")
    ELSE Handled(self, NoReply, "CONTINUE")

\* SkipBranch that charges the penalty and stays on the question
SkipBranch_stays(self, session_id, outcome) ==
    IF session_id \in DOMAIN self.current_games
    THEN LET scored == add_score(self, session_id, SkipPoints, outcome)
             game == scored.current_games[session_id]
         IN  Handled(scored,
                     <<TextSkip(get_score(scored, session_id)),
                       ImageReply(CurrentQuestion(game).image),
                       TextInfo(game.current_index + 1)>>,
                     "BREAK_PASS")
    ELSE Handled(self, NoReply, "CONTINUE")

\* SkipBranch with the penalty charged before the test for a game
SkipBranch_charges_first(self, session_id, outcome) ==
    LET scored == add_score(self, session_id, SkipPoints, outcome)
    IN  IF session_id \in DOMAIN self.current_games
        THEN LET game == scored.current_games[session_id]
                 score == get_score(scored, session_id)
             IN  IF game.current_index < QuestionsPerRound - 1
                 THEN LET next_game == [game EXCEPT !.current_index = @ + 1]
                      IN  Handled(
                            [scored EXCEPT
                                !.current_games[session_id] = next_game],
                            <<TextSkip(score),
                              ImageReply(CurrentQuestion(next_game).image),
                              TextInfo(next_game.current_index + 1)>>,
                            "BREAK_PASS")
                 ELSE Handled(
                        [scored EXCEPT
                            !.current_games = MapDel(@, session_id)],
                        <<TextSkipEnd(score, game.score)>>,
                        "BREAK_PASS")
        ELSE Handled(scored, NoReply, "CONTINUE")

\* SkipBranch with the penalty also taken from the round score
SkipBranch_debits_round(self, session_id, outcome) ==
    IF session_id \in DOMAIN self.current_games
    THEN LET scored == add_score(self, session_id, SkipPoints, outcome)
             game == [scored.current_games[session_id]
                         EXCEPT !.score = @ + SkipPoints]
             score == get_score(scored, session_id)
         IN  IF game.current_index < QuestionsPerRound - 1
             THEN LET next_game == [game EXCEPT !.current_index = @ + 1]
                  IN  Handled(
                        [scored EXCEPT !.current_games[session_id] = next_game],
                        <<TextSkip(score),
                          ImageReply(CurrentQuestion(next_game).image),
                          TextInfo(next_game.current_index + 1)>>,
                        "BREAK_PASS")
             ELSE Handled(
                    [scored EXCEPT !.current_games = MapDel(@, session_id)],
                    <<TextSkipEnd(score, game.score)>>,
                    "BREAK_PASS")
    ELSE Handled(self, NoReply, "CONTINUE")

\* content == "#跳过"
SkipBranch(self, session_id, outcome) ==
    IF session_id \in DOMAIN self.current_games
    THEN LET scored == add_score(self, session_id, SkipPoints, outcome)
             game == scored.current_games[session_id]
             score == get_score(scored, session_id)
         IN  IF game.current_index < QuestionsPerRound - 1
             THEN LET next_game == [game EXCEPT !.current_index = @ + 1]
                  IN  Handled(
                        [scored EXCEPT !.current_games[session_id] = next_game],
                        <<TextSkip(score),
                          ImageReply(CurrentQuestion(next_game).image),
                          TextInfo(next_game.current_index + 1)>>,
                        "BREAK_PASS")
             ELSE Handled(
                    [scored EXCEPT !.current_games = MapDel(@, session_id)],
                    <<TextSkipEnd(score, game.score)>>,
                    "BREAK_PASS")
    ELSE Handled(self, NoReply, "CONTINUE")

----------------------------------------------------------------------------
(* on_handle_context *)

\* e_context['context'].kwargs.get('msg').get('actual_user_nickname', default).
\* ctx.msg is what kwargs.get('msg') returns: present is FALSE for None, and
\* has_nickname tells whether the msg has the key 'actual_user_nickname'
Nickname(msg) ==
    IF msg.has_nickname THEN msg.actual_user_nickname ELSE UnknownUser

\* A message: ctx.verb and ctx.arg are its content after strip(), as the
\* handler tells contents apart: verb is the command the content equals (or,
\* for "#answer", the prefix it starts with) and arg is content[3:].strip(),
\* the answer given.  scores_write and names_write are the outcomes of the
\* writes the call makes.
on_handle_context(self, ctx, round_questions, scores_write, names_write) ==
    IF ctx.type # "TEXT"
    THEN Handled(self, NoReply, "CONTINUE")
    ELSE IF ~ctx.msg.present
    THEN Raised(self)   \* None.get(...): AttributeError leaves the handler
    ELSE
    LET session_id == ctx.session_id
        named == update_username(self, session_id, Nickname(ctx.msg),
                                 names_write)
    IN  CASE ctx.verb = "#rank"   -> RankBranch(named)
          [] ctx.verb = "#score"  -> ScoreBranch(named, session_id)
          [] ctx.verb = "#start"  -> StartBranch(named, session_id,
                                                 round_questions)
          [] ctx.verb = "#answer" -> AnswerBranch(named, session_id, ctx.arg,
                                                  scores_write)
          [] ctx.verb = "#end"    -> EndBranch(named, session_id)
          [] ctx.verb = "#skip"   -> SkipBranch(named, session_id,
                                                scores_write)
          [] OTHER                -> Handled(named, NoReply, "CONTINUE")

----------------------------------------------------------------------------
(* The state machine *)

\* the object as a record of its fields
Self ==
    [questions          |-> questions,
     current_games      |-> current_games,
     scores             |-> scores,
     is_daily_game_time |-> is_daily_game_time,
     usernames          |-> usernames,
     scores_file        |-> scores_file,
     usernames_file     |-> usernames_file]

\* the fields of the object after a step
SelfBecomes(self) ==
    /\ questions' = self.questions
    /\ current_games' = self.current_games
    /\ scores' = self.scores
    /\ is_daily_game_time' = self.is_daily_game_time
    /\ usernames' = self.usernames
    /\ scores_file' = self.scores_file
    /\ usernames_file' = self.usernames_file

\* the fields of the object in an initial state
SelfIs(self) ==
    /\ questions = self.questions
    /\ current_games = self.current_games
    /\ scores = self.scores
    /\ is_daily_game_time = self.is_daily_game_time
    /\ usernames = self.usernames
    /\ scores_file = self.scores_file
    /\ usernames_file = self.usernames_file

\* questions.json as generate_questions.py writes it: question i has image
\* i.png and its own answer
Bank(n) == [i \in 1..n |-> [image |-> i, answer |-> i]]

\* the texts a user may answer with: the answers of the bank and 0, a text
\* that is the answer of no question
Texts == {0} \cup {questions[i].answer : i \in DOMAIN questions}

ContextTypes == {"TEXT", "IMAGE"}
Verbs == {"#rank", "#score", "#start", "#answer", "#end", "#skip", "other"}
QueryVerbs == {"#rank", "#score"}

\* the msg a message may carry: one with a nickname, one without, None
MsgWith(name) ==
    [present |-> TRUE, has_nickname |-> TRUE, actual_user_nickname |-> name]
MsgPlain ==
    [present |-> TRUE, has_nickname |-> FALSE, actual_user_nickname |-> None]
NoMsg ==
    [present |-> FALSE, has_nickname |-> FALSE, actual_user_nickname |-> None]
AllMsgs == {MsgPlain, MsgWith("amy"), NoMsg}
\* the msgs with which a call reaches the dispatch on the content
DispatchMsgs == {MsgPlain, MsgWith("amy")}
PlainMsgs == {MsgPlain}

Ctx(type, verb, arg, session_id, msg) ==
    [type |-> type, verb |-> verb, arg |-> arg, session_id |-> session_id,
     msg |-> msg]

\* only an answer carries a text, and a message that is no text is no command
WellFormed(type, verb, arg) ==
    /\ verb = "#answer" \/ arg = 0
    /\ type = "TEXT" \/ verb = "other"

\* what random.sample may return when the call reaches it
Samples(ctx) ==
    IF ctx.verb = "#start" /\ Len(questions) >= QuestionsPerRound
    THEN get_random_questions(Self, QuestionsPerRound)
    ELSE {<<>>}

\* the call reaches the dispatch on the content
Dispatched(ctx) == ctx.type = "TEXT" /\ ctx.msg.present

\* the outcomes to draw for the write of usernames.json and of scores.json:
\* a write the call cannot reach has one outcome to draw
NamesWrites(ctx, outcomes) ==
    IF /\ Dispatched(ctx)
       /\ \/ ctx.session_id \notin DOMAIN usernames
          \/ usernames[ctx.session_id] # Nickname(ctx.msg)
    THEN outcomes ELSE {"ok"}

ScoresWrites(ctx, outcomes) ==
    IF /\ Dispatched(ctx)
       /\ ctx.verb \in {"#answer", "#skip"}
       /\ ctx.session_id \in DOMAIN current_games
       /\ is_daily_game_time
    THEN outcomes ELSE {"ok"}

\* every total of the ledger is within the model's bound
WithinBound(self) ==
    \A i \in DOMAIN self.scores :
        /\ self.scores[i][2] <= MaxScore
        /\ self.scores[i][2] >= -MaxScore

\* the message is an answer equal to the answer of the sender's current question
IsCorrectAnswer(ctx) ==
    /\ Dispatched(ctx)
    /\ ctx.verb = "#answer"
    /\ ctx.session_id \in DOMAIN current_games
    /\ ctx.arg = CurrentQuestion(current_games[ctx.session_id]).answer

\* the message is an answer that differs from it
IsWrongAnswer(ctx) ==
    /\ Dispatched(ctx)
    /\ ctx.verb = "#answer"
    /\ ctx.session_id \in DOMAIN current_games
    /\ ctx.arg # CurrentQuestion(current_games[ctx.session_id]).answer

\* the message is a skip of a sender who is in a game
IsSkip(ctx) ==
    /\ Dispatched(ctx)
    /\ ctx.verb = "#skip"
    /\ ctx.session_id \in DOMAIN current_games

\* the points of a scoring message
PointsOf(ctx) == IF ctx.verb = "#answer" THEN CorrectPoints ELSE SkipPoints

\* the observer: a session counts from 0 when it appears, counts the correct
\* answers and the skips its user sends, and is forgotten with the session
NoTally == [correct |-> 0, skipped |-> 0]

TallyAfter(ctx, games_after) ==
    LET sid == ctx.session_id
        counted == [correct |-> tally[sid].correct
                                    + (IF IsCorrectAnswer(ctx) THEN 1 ELSE 0),
                    skipped |-> tally[sid].skipped
                                    + (IF IsSkip(ctx) THEN 1 ELSE 0)]
    IN  [u \in DOMAIN games_after |->
            IF u \in DOMAIN current_games
            THEN IF u = sid THEN counted ELSE tally[u]
            ELSE NoTally]

\* the call of the handler on ctx has run to its end and left r
HandlerReturns(ctx, r) ==
    /\ SelfBecomes(r.self)
    /\ reply' = r.reply
    /\ action' = r.action
    /\ raised' = r.raised
    /\ tally' = TallyAfter(ctx, r.self.current_games)

\* the host delivers the message ctx and the handler runs to its end
DeliverCtx(ctx, outcomes) ==
    \E round_questions \in Samples(ctx) :
    \E scores_write \in ScoresWrites(ctx, outcomes) :
    \E names_write \in NamesWrites(ctx, outcomes) :
        LET r == on_handle_context(Self, ctx, round_questions, scores_write,
                                   names_write)
        IN  /\ WithinBound(r.self)
            /\ HandlerReturns(ctx, r)

\* the host delivers one message
Deliver(senders, verbs, msgs, outcomes) ==
    \E type \in ContextTypes, verb \in verbs, arg \in Texts :
    \E session_id \in senders :
    \E msg \in msgs :
        /\ WellFormed(type, verb, arg)
        /\ DeliverCtx(Ctx(type, verb, arg, session_id, msg), outcomes)
        /\ UNCHANGED <<in_window, step, shadow, round_start, threads>>

\* 18:00: the scheduler's cron job runs start_daily_game
Opens ==
    /\ ~in_window
    /\ in_window' = TRUE
    /\ SelfBecomes(start_daily_game(Self))
    /\ UNCHANGED <<reply, action, raised, tally, shadow, round_start,
                   threads>>

OpenWindow == Opens /\ UNCHANGED step

\* 23:59: the scheduler's cron job runs end_daily_game
CloseWindow ==
    /\ in_window
    /\ in_window' = FALSE
    /\ SelfBecomes(end_daily_game(Self))
    /\ UNCHANGED <<reply, action, raised, tally, step, shadow, round_start,
                   threads>>

\* the process stops and is started again: __init__ runs on what is on disk
Restart ==
    /\ SelfBecomes(IdiomGame_init(questions, scores_file, usernames_file))
    /\ reply' = NoReply
    /\ action' = "CONTINUE"
    /\ raised' = FALSE
    /\ tally' = EmptyMap
    /\ UNCHANGED <<in_window, step, shadow, round_start, threads>>

\* a process constructed on the bank and the files given, at any time of day
Constructed(bank, sfile, ufile) ==
    /\ SelfIs(IdiomGame_init(bank, sfile, ufile))
    /\ reply = NoReply
    /\ action = "CONTINUE"
    /\ raised = FALSE
    /\ tally = EmptyMap
    /\ step = 0
    /\ shadow = IdiomGame_init(bank, sfile, ufile)
    /\ round_start = EmptyMap
    /\ threads = EmptyMap

\* a first start: no scores.json, no usernames.json
Init ==
    /\ in_window \in BOOLEAN
    /\ \E n \in BankSizes : Constructed(Bank(n), FileMissing, FileMissing)

\* the write outcomes of the main specification
OkWrites == {"ok"}

Next ==
    \/ Deliver(Users, Verbs, AllMsgs, OkWrites)
    \/ OpenWindow
    \/ CloseWindow
    \/ Restart

Spec == Init /\ [][Next]_vars

----------------------------------------------------------------------------
(* The scenario of the specification's section 8: a bank of 5 questions, the *)
(* window opened, then Start, a wrong Answer, the correct Answer, Skip, the  *)
(* correct Answer, from a user with no total.  step counts the script.       *)

ScenarioInit ==
    /\ in_window = FALSE
    /\ Constructed(Bank(5), FileMissing, FileMissing)

\* the user of the scenario sends, as the message number s of the script, a
\* message of the verb given: kind tells a wrong answer from a correct one
ScenarioSend(s, verb, kind) ==
    /\ step = s
    /\ \E arg \in Texts, msg \in DispatchMsgs :
         LET ctx == Ctx("TEXT", verb, arg, "u1", msg)
         IN  /\ WellFormed("TEXT", verb, arg)
             /\ kind = "wrong" => IsWrongAnswer(ctx)
             /\ kind = "correct" => IsCorrectAnswer(ctx)
             /\ DeliverCtx(ctx, WriteOutcomes)
    /\ step' = s + 1
    /\ UNCHANGED <<in_window, shadow, round_start, threads>>

ScenarioNext ==
    \/ step = 0 /\ Opens /\ step' = 1
    \/ ScenarioSend(1, "#start", "any")
    \/ ScenarioSend(2, "#answer", "wrong")
    \/ ScenarioSend(3, "#answer", "correct")
    \/ ScenarioSend(4, "#skip", "any")
    \/ ScenarioSend(5, "#answer", "correct")

SpecScenario == ScenarioInit /\ [][ScenarioNext]_vars

----------------------------------------------------------------------------
(* Two runs on the same messages: the object with the gate true throughout; *)
(* and shadow, a second object, with the gate false throughout.             *)

\* a ledger left on disk by an earlier run
PriorLedger == <<<<"u1", 1>>>>
PairFiles == {FileMissing, FileOk(json_dump_scores(PriorLedger))}

PairInit ==
    /\ in_window = TRUE
    /\ \E n \in BankSizes, sfile \in PairFiles :
         /\ SelfIs(start_daily_game(IdiomGame_init(Bank(n), sfile, FileMissing)))
         /\ shadow = IdiomGame_init(Bank(n), sfile, FileMissing)
    /\ reply = NoReply
    /\ action = "CONTINUE"
    /\ raised = FALSE
    /\ tally = EmptyMap
    /\ step = 0
    /\ round_start = EmptyMap
    /\ threads = EmptyMap

\* the host of each run delivers the same message, random.sample returns
\* the same questions, and the writes have the same outcomes
PairDeliver(senders, verbs, msgs, outcomes) ==
    \E type \in ContextTypes, verb \in verbs, arg \in Texts :
    \E session_id \in senders :
    \E msg \in msgs :
        LET ctx == Ctx(type, verb, arg, session_id, msg)
        IN  /\ WellFormed(type, verb, arg)
            /\ \E round_questions \in Samples(ctx) :
               \E scores_write \in outcomes, names_write \in outcomes :
                  LET r == on_handle_context(Self, ctx, round_questions,
                                             scores_write, names_write)
                      t == on_handle_context(shadow, ctx, round_questions,
                                             scores_write, names_write)
                  IN  /\ WithinBound(r.self)
                      /\ SelfBecomes(r.self)
                      /\ reply' = r.reply
                      /\ action' = r.action
                      /\ raised' = r.raised
                      /\ tally' = TallyAfter(ctx, r.self.current_games)
                      /\ shadow' = t.self
            /\ UNCHANGED <<in_window, step, round_start, threads>>

PairNext == PairDeliver(Users, Verbs, AllMsgs, OkWrites)

SpecPair == PairInit /\ [][PairNext]_vars

----------------------------------------------------------------------------
(* The ledger and its queries: the process starts on a ledger an earlier  *)
(* run saved (json.dump of self.scores, line 73), the window opens and     *)
(* closes, and the users send their queries.                                *)

RankUsers == {"u1", "u2", "u3"}
\* totals a user can have: one skip, a correct answer and a skip, a correct
\* answer
RankTotals == {SkipPoints, CorrectPoints + SkipPoints, CorrectPoints}

\* the dicts of session id to total, in insertion order
RankLedgers ==
    {d \in UNION {[1..n -> RankUsers \X RankTotals] :
                    n \in 0..Cardinality(RankUsers)} :
        \A i, j \in DOMAIN d : i # j => d[i][1] # d[j][1]}

RankFiles == {FileOk(json_dump_scores(d)) : d \in RankLedgers}

RankInit ==
    /\ in_window \in BOOLEAN
    /\ \E sfile \in RankFiles : Constructed(Bank(3), sfile, FileMissing)

RankNext ==
    \/ OpenWindow
    \/ CloseWindow
    \/ Deliver(RankUsers, QueryVerbs, PlainMsgs, OkWrites)

SpecRank == RankInit /\ [][RankNext]_vars

----------------------------------------------------------------------------
(* The disk: the writes of scores.json and usernames.json may fail, at the *)
(* open or midway, and the process may stop and start again at any time.   *)

DiskInit ==
    /\ in_window \in BOOLEAN
    /\ Constructed(Bank(3), FileMissing, FileMissing)

DiskNext ==
    \/ Deliver(Users, Verbs, PlainMsgs, WriteOutcomes)
    \/ OpenWindow
    \/ CloseWindow
    \/ Restart

SpecDisk == DiskInit /\ [][DiskNext]_vars

----------------------------------------------------------------------------
(* Two users, whose messages the host delivers in any order; step counts   *)
(* the messages delivered, up to MaxMessages.                               *)

TwoUsers == {"u1", "u2"}
\* bound of the model: the number of messages of a run
MaxMessages == 4

TwoInit ==
    /\ in_window = FALSE
    /\ Constructed(Bank(3), FileMissing, FileMissing)

TwoDeliver ==
    /\ step < MaxMessages
    /\ \E verb \in Verbs, arg \in Texts, session_id \in TwoUsers :
       \E msg \in PlainMsgs :
          /\ WellFormed("TEXT", verb, arg)
          /\ DeliverCtx(Ctx("TEXT", verb, arg, session_id, msg), OkWrites)
    /\ step' = step + 1
    /\ UNCHANGED <<in_window, shadow, round_start, threads>>

TwoNext ==
    \/ TwoDeliver
    \/ OpenWindow

SpecTwo == TwoInit /\ [][TwoNext]_vars

----------------------------------------------------------------------------
(* Whole rounds of one user: step counts the rounds begun, up to MaxRounds, *)
(* and round_start keeps the total the user had when the last one began.    *)

\* bound of the model: the number of rounds of a run
MaxRounds == 2

RoundInit ==
    /\ in_window \in BOOLEAN
    /\ Constructed(Bank(3), FileMissing, FileMissing)

RoundDeliver ==
    \E verb \in Verbs, arg \in Texts, session_id \in Users, msg \in PlainMsgs :
        LET ctx == Ctx("TEXT", verb, arg, session_id, msg)
        IN  /\ WellFormed("TEXT", verb, arg)
            /\ \E round_questions \in Samples(ctx) :
                  LET r == on_handle_context(Self, ctx, round_questions, "ok",
                                             "ok")
                      begins == /\ session_id \notin DOMAIN current_games
                                /\ session_id \in DOMAIN r.self.current_games
                  IN  /\ begins => step < MaxRounds
                      /\ HandlerReturns(ctx, r)
                      /\ step' = IF begins THEN step + 1 ELSE step
                      /\ round_start' =
                            IF begins
                            THEN MapSet(round_start, session_id,
                                        get_score(Self, session_id))
                            ELSE round_start
            /\ UNCHANGED <<in_window, shadow, threads>>

RoundNext ==
    \/ RoundDeliver
    \/ OpenWindow
    \/ CloseWindow

SpecRound == RoundInit /\ [][RoundNext]_vars

----------------------------------------------------------------------------
(* Two calls of on_handle_context for messages of one user, run by two     *)
(* threads of the host.  The handler takes no lock, so the threads         *)
(* interleave; a step is one statement of the handler (add_score in two:   *)
(* the change of the dict, and the write of the file).  threads.game is    *)
(* the dict object both calls name game: current_games maps the user to it *)
(* until a call deletes the entry, and a call that holds it can still read *)
(* and change it afterwards.  shadow is the object as it was before the    *)
(* two calls.                                                               *)

RaceUser == "u1"
Calls == {1, 2}
RaceVerbs == {"#answer", "#skip"}
NoQuestion == [image |-> 0, answer |-> 0]

\* the object in the window, after a Start and the given number of correct
\* answers of the user
RECURSIVE InRoundAfter(_)
InRoundAfter(answered) ==
    IF answered = 0
    THEN on_handle_context(
            start_daily_game(IdiomGame_init(Bank(3), FileMissing, FileMissing)),
            Ctx("TEXT", "#start", 0, RaceUser, MsgPlain), Bank(3), "ok", "ok"
         ).self
    ELSE on_handle_context(
            InRoundAfter(answered - 1),
            Ctx("TEXT", "#answer", answered, RaceUser, MsgPlain), <<>>, "ok",
            "ok").self

\* a call that has been made and has not run yet
NewCall(verb, arg) ==
    [verb |-> verb, arg |-> arg, pc |-> "enter", current_question |-> NoQuestion,
     score |-> 0, reply |-> NoReply, action |-> "CONTINUE"]

RaceInit ==
    /\ in_window = TRUE
    /\ \E answered \in 0..(QuestionsPerRound - 1) :
         /\ SelfIs(InRoundAfter(answered))
         /\ shadow = InRoundAfter(answered)
         /\ \E verbs \in [Calls -> RaceVerbs] :
               threads =
                 [game |-> InRoundAfter(answered).current_games[RaceUser],
                  calls |-> [c \in Calls |->
                      NewCall(verbs[c],
                              IF verbs[c] = "#answer" THEN answered + 1
                              ELSE 0)]]
    /\ reply = NoReply
    /\ action = "CONTINUE"
    /\ raised = FALSE
    /\ tally = EmptyMap
    /\ step = 0
    /\ round_start = EmptyMap

\* the statement after the scoring call: game["score"] += 3 for an answer
AfterScoring(call) == IF call.verb = "#answer" THEN "round" ELSE "total"

\* the next statement of a call: what it leaves of the object self, of the
\* dict game and of the call's local variables
Statement(self, game, call) ==
    LET session_id == RaceUser
        in_game == session_id \in DOMAIN self.current_games
        goes(pc) == [self |-> self, game |-> game,
                     call |-> [call EXCEPT !.pc = pc]]
        index == game.current_index
    IN  CASE call.pc = "enter" ->    \* lines 151-159
                [self |-> update_username(self, session_id, UnknownUser, "ok"),
                 game |-> game, call |-> [call EXCEPT !.pc = "check"]]
          [] call.pc = "check" ->    \* lines 237, 290
                IF in_game THEN goes("load")
                ELSE [self |-> self, game |-> game,
                      call |-> IF call.verb = "#answer"
                               THEN [call EXCEPT !.pc = "done",
                                                 !.reply = <<TextNoGame>>,
                                                 !.action = "BREAK_PASS"]
                               ELSE [call EXCEPT !.pc = "done"]]
          [] call.pc = "load" ->     \* lines 243, 291: KeyError without entry
                IF in_game
                THEN goes(IF call.verb = "#answer" THEN "question" ELSE "add")
                ELSE goes("raised")
          [] call.pc = "question" -> \* lines 244-245: IndexError past the end
                IF index + 1 \in DOMAIN game.questions
                THEN [self |-> self, game |-> game,
                      call |-> [call EXCEPT
                                  !.pc = "compare",
                                  !.current_question = game.questions[index + 1]]]
                ELSE goes("raised")
          [] call.pc = "compare" ->  \* lines 247, 270-274
                IF call.arg = call.current_question.answer
                THEN goes("add")
                ELSE [self |-> self, game |-> game,
                      call |-> [call EXCEPT !.pc = "done",
                                            !.reply = <<TextWrong>>,
                                            !.action = "BREAK_PASS"]]
          [] call.pc = "add" ->      \* lines 248, 292: add_score, lines 80-85
                IF ~self.is_daily_game_time
                THEN goes(AfterScoring(call))
                ELSE [self |-> [self EXCEPT !.scores =
                                  add_score(self, session_id, PointsOf(call),
                                            "ok").scores],
                      game |-> game, call |-> [call EXCEPT !.pc = "save"]]
          [] call.pc = "save" ->     \* add_score, line 86
                [self |-> save_scores(self, "ok"), game |-> game,
                 call |-> [call EXCEPT !.pc = AfterScoring(call)]]
          [] call.pc = "round" ->    \* line 249
                [self |-> self,
                 game |-> [game EXCEPT !.score = @ + CorrectPoints],
                 call |-> [call EXCEPT !.pc = "total"]]
          [] call.pc = "total" ->    \* lines 250, 293
                [self |-> self, game |-> game,
                 call |-> [call EXCEPT !.pc = "more",
                                       !.score = get_score(self, session_id)]]
          [] call.pc = "more" ->     \* lines 252, 295
                goes(IF index < QuestionsPerRound - 1 THEN "next"
                     ELSE "summary")
          [] call.pc = "next" ->     \* lines 253-260, 296-303
                LET next_game == [game EXCEPT !.current_index = @ + 1]
                IN  IF next_game.current_index + 1 \in DOMAIN game.questions
                    THEN [self |-> self, game |-> next_game,
                          call |-> [call EXCEPT
                              !.pc = "done",
                              !.reply =
                                <<IF call.verb = "#answer"
                                  THEN TextCorrect(call.arg, call.score)
                                  ELSE TextSkip(call.score),
                                  ImageReply(CurrentQuestion(next_game).image),
                                  TextInfo(next_game.current_index + 1)>>,
                              !.action = "BREAK_PASS"]]
                    ELSE [self |-> self, game |-> next_game,
                          call |-> [call EXCEPT !.pc = "raised"]]
          [] call.pc = "summary" ->  \* lines 262-266, 306-309
                [self |-> self, game |-> game,
                 call |-> [call EXCEPT
                     !.pc = "del",
                     !.reply =
                        <<IF call.verb = "#answer"
                          THEN TextCorrectEnd(call.arg, call.score, game.score)
                          ELSE TextSkipEnd(call.score, game.score)>>]]
          [] call.pc = "del" ->      \* lines 267, 310: KeyError without entry
                IF in_game
                THEN [self |-> [self EXCEPT
                                  !.current_games = MapDel(@, session_id)],
                      game |-> game,
                      call |-> [call EXCEPT !.pc = "done",
                                            !.action = "BREAK_PASS"]]
                ELSE [self |-> self, game |-> game,
                      call |-> [call EXCEPT !.pc = "raised",
                                            !.reply = NoReply]]

\* the thread of call c runs the next statement of its call
RaceStep ==
    \E c \in Calls :
        /\ threads.calls[c].pc \notin {"done", "raised"}
        /\ LET r == Statement(Self, threads.game, threads.calls[c])
               games == r.self.current_games
           IN  /\ SelfBecomes(
                      [r.self EXCEPT !.current_games =
                          IF RaceUser \in DOMAIN games
                          THEN [games EXCEPT ![RaceUser] = r.game]
                          ELSE games])
               /\ threads' = [game |-> r.game,
                              calls |-> [threads.calls EXCEPT ![c] = r.call]]
        /\ UNCHANGED <<reply, action, raised, in_window, tally, step, shadow,
                       round_start>>

RaceNext == RaceStep

SpecRace == RaceInit /\ [][RaceNext]_vars

----------------------------------------------------------------------------
(* The claims.  A claim about what one call of the handler does is stated  *)
(* over every message that may be delivered in a reachable state, with     *)
(* every outcome of the writes the call makes.                             *)

ScoringVerbs == {"#answer", "#skip"}

\* C1: a correct Answer or a Skip handled in an active session changes the
\* sender's ledger total by its points (+3, -2) when the gate is true at the
\* call of add_score and leaves it as it is when the gate is false, whatever
\* the gate was earlier in the round; and the window-open and window-close
\* triggers themselves leave every recorded total as it is.
C1_GateAtCallDecidesDelta ==
    /\ \A session_id \in Users, verb \in ScoringVerbs, arg \in Texts :
       \A msg \in DispatchMsgs :
          LET ctx == Ctx("TEXT", verb, arg, session_id, msg)
          IN  (WellFormed("TEXT", verb, arg)
                  /\ (IsCorrectAnswer(ctx) \/ IsSkip(ctx))) =>
              \A scores_write \in ScoresWrites(ctx, WriteOutcomes) :
              \A names_write \in NamesWrites(ctx, WriteOutcomes) :
                 LET r == on_handle_context(Self, ctx, <<>>, scores_write,
                                            names_write)
                 IN  get_score(r.self, session_id)
                        = get_score(Self, session_id)
                          + (IF is_daily_game_time THEN PointsOf(ctx) ELSE 0)
    /\ start_daily_game(Self).scores = scores
    /\ end_daily_game(Self).scores = scores

\* C1 witness: the second correct answer of a round has just been scored
\* with the gate true (total 3), in a round whose round score (6) shows that
\* its first correct answer was not all there is in the total
C1_Witness ==
    /\ is_daily_game_time
    /\ "u1" \in DOMAIN current_games
    /\ tally["u1"] = [correct |-> 2, skipped |-> 0]
    /\ current_games["u1"].score = 6
    /\ get_score(Self, "u1") = 3
    /\ Len(reply) = 3
    /\ reply[1].text = "correct"
    /\ reply[1].score = 3

\* C2: in a session that has seen no Skip, a correct Answer keeps the session
\* in the map when it is the first or the second correct answer since Start
\* and removes it when it is the third (K = 3); a wrong Answer keeps it; so a
\* live session that has seen no Skip has seen fewer than K correct answers.
C2_DestroyedAtKthCorrectAnswer ==
    \A session_id \in DOMAIN current_games :
        tally[session_id].skipped = 0 =>
        /\ tally[session_id].correct < QuestionsPerRound
        /\ \A arg \in Texts, msg \in DispatchMsgs :
              LET ctx == Ctx("TEXT", "#answer", arg, session_id, msg)
              IN  \A scores_write \in ScoresWrites(ctx, WriteOutcomes) :
                  \A names_write \in NamesWrites(ctx, WriteOutcomes) :
                     LET r == on_handle_context(Self, ctx, <<>>, scores_write,
                                                names_write)
                         kept == session_id \in DOMAIN r.self.current_games
                     IN  IF IsCorrectAnswer(ctx)
                         THEN kept <=> (tally[session_id].correct + 1
                                            < QuestionsPerRound)
                         ELSE kept

\* C2 witness: the third correct answer of a round has been handled (the
\* summary of a round of three correct answers) and the session is gone
C2_Witness ==
    /\ "u1" \notin DOMAIN current_games
    /\ Len(reply) = 1
    /\ reply[1].text = "correct_round_over"
    /\ reply[1].round_score = 3 * CorrectPoints

SummaryTexts == {"correct_round_over", "skipped_round_over", "game_over"}
RoundVerbs == {"#answer", "#skip", "#end"}

\* a reply that is a round summary
IsSummary(rep) == Len(rep) = 1 /\ rep[1].text \in SummaryTexts

\* the message ends the round of its sender, who is in a game
EndsRound(ctx) ==
    LET game == current_games[ctx.session_id]
    IN  \/ ctx.verb = "#end"
        \/ /\ IsCorrectAnswer(ctx) \/ IsSkip(ctx)
           /\ game.current_index = QuestionsPerRound - 1

\* C3: the round score of a live session is 3 times the number of correct
\* answers given in it, and a round summary (last question answered
\* correctly, last question skipped, or End) reports 3 times the number of
\* correct answers given in the session, the one being handled included;
\* skips do not change it, and it is the same with the gate true or false.
C3_RoundScoreCountsCorrectAnswers ==
    \A session_id \in DOMAIN current_games :
        /\ current_games[session_id].score
              = CorrectPoints * tally[session_id].correct
        /\ \A verb \in RoundVerbs, arg \in Texts, msg \in DispatchMsgs :
           \A gate \in BOOLEAN :
              LET ctx == Ctx("TEXT", verb, arg, session_id, msg)
                  self == [Self EXCEPT !.is_daily_game_time = gate]
              IN  WellFormed("TEXT", verb, arg) =>
                  \A scores_write \in WriteOutcomes :
                  \A names_write \in NamesWrites(ctx, WriteOutcomes) :
                     LET r == on_handle_context(self, ctx, <<>>, scores_write,
                                                names_write)
                         correct == tally[session_id].correct
                                    + (IF IsCorrectAnswer(ctx) THEN 1 ELSE 0)
                     IN  /\ EndsRound(ctx) <=> IsSummary(r.reply)
                         /\ IsSummary(r.reply) =>
                               r.reply[1].round_score = CorrectPoints * correct

\* C3 witness: a round of one correct answer and two skips has ended on the
\* skip of its last question, with a summary reporting 3
C3_Witness ==
    /\ "u1" \notin DOMAIN current_games
    /\ Len(reply) = 1
    /\ reply[1].text = "skipped_round_over"
    /\ reply[1].round_score = CorrectPoints

\* C5: a Start of a user who is in a game leaves the session map (that
\* session's questions, current index and round score, and the sessions
\* there are) and the ledger as they are, and the reply is the one text
\* 'already in a game'.
C5_StartInGameChangesNothing ==
    \A session_id \in DOMAIN current_games, msg \in DispatchMsgs :
        LET ctx == Ctx("TEXT", "#start", 0, session_id, msg)
        IN  \A round_questions \in Samples(ctx) :
            \A names_write \in NamesWrites(ctx, WriteOutcomes) :
               LET r == on_handle_context(Self, ctx, round_questions, "ok",
                                          names_write)
               IN  /\ r.self.current_games = current_games
                   /\ r.self.scores = scores
                   /\ r.reply = <<TextAlready>>

\* C5 witness: a user at the second question of a round has sent Start
C5_Witness ==
    /\ "u1" \in DOMAIN current_games
    /\ current_games["u1"].current_index = 1
    /\ current_games["u1"].score = CorrectPoints
    /\ reply = <<TextAlready>>

\* C8: an Answer that differs from the answer of the current question,
\* handled in an active session, leaves the session map and the ledger as
\* they are, and the reply is the one text 'wrong, try again'.
C8_WrongAnswerChangesNothing ==
    \A session_id \in DOMAIN current_games :
    \A arg \in Texts, msg \in DispatchMsgs :
        LET ctx == Ctx("TEXT", "#answer", arg, session_id, msg)
        IN  IsWrongAnswer(ctx) =>
            \A scores_write \in WriteOutcomes :
            \A names_write \in NamesWrites(ctx, WriteOutcomes) :
               LET r == on_handle_context(Self, ctx, <<>>, scores_write,
                                          names_write)
               IN  /\ r.self.current_games = current_games
                   /\ r.self.scores = scores
                   /\ r.reply = <<TextWrong>>

\* C8 witness: a wrong answer has been handled in an active session while
\* the gate is true and the user has a total
C8_Witness ==
    /\ "u1" \in DOMAIN current_games
    /\ is_daily_game_time
    /\ HasKey(scores, "u1")
    /\ reply = <<TextWrong>>

NoSessionVerbs == {"#answer", "#skip", "#end"}

\* C9: for a user who is in no game, Answer, Skip and End leave the session
\* map and the ledger as they are, with the gate true as with the gate
\* false; Answer is replied to with the text 'no game in progress', Skip and
\* End with nothing.
C9_NoSessionCommandsChangeNothing ==
    \A session_id \in Users \ DOMAIN current_games :
    \A verb \in NoSessionVerbs, arg \in Texts, msg \in DispatchMsgs :
        LET ctx == Ctx("TEXT", verb, arg, session_id, msg)
        IN  WellFormed("TEXT", verb, arg) =>
            \A scores_write \in WriteOutcomes :
            \A names_write \in NamesWrites(ctx, WriteOutcomes) :
               LET r == on_handle_context(Self, ctx, <<>>, scores_write,
                                          names_write)
               IN  /\ r.self.current_games = current_games
                   /\ r.self.scores = scores
                   /\ r.reply = IF verb = "#answer"
                                THEN <<TextNoGame>> ELSE NoReply

\* C9 witness: with the gate true and a total on the ledger, a user in no
\* game has sent an Answer
C9_Witness ==
    /\ "u1" \notin DOMAIN current_games
    /\ is_daily_game_time
    /\ HasKey(scores, "u1")
    /\ reply = <<TextNoGame>>

\* a reply to a Start that began a round
IsRoundStart(rep) == Len(rep) = 2 /\ rep[2].text = "question_info_first"

\* C10: a process started at any time of day, inside the daily window
\* included, has the gate false; while the gate is false no message and no
\* window-close trigger makes it true (only the window-open trigger does),
\* no message changes the ledger, and a Start that begins a round is
\* replied to with the label 'unscored'.
C10_GateFalseFromStartUntilOpen ==
    /\ ~IdiomGame_init(questions, scores_file, usernames_file)
            .is_daily_game_time
    /\ ~is_daily_game_time =>
        /\ ~end_daily_game(Self).is_daily_game_time
        /\ \A type \in ContextTypes, verb \in Verbs, arg \in Texts :
           \A session_id \in Users, msg \in AllMsgs :
              LET ctx == Ctx(type, verb, arg, session_id, msg)
              IN  WellFormed(type, verb, arg) =>
                  \A round_questions \in Samples(ctx) :
                  \A scores_write \in WriteOutcomes :
                  \A names_write \in NamesWrites(ctx, WriteOutcomes) :
                     LET r == on_handle_context(Self, ctx, round_questions,
                                                scores_write, names_write)
                     IN  /\ ~r.self.is_daily_game_time
                         /\ r.self.scores = scores
                         /\ IsRoundStart(r.reply) => ~r.reply[2].scored

\* C10 witness: the process was restarted inside the window (the clock is in
\* the window, the ledger holds a total scored earlier in it, the gate is
\* false) and a Start has since been replied to with the label 'unscored'
C10_Witness ==
    /\ in_window
    /\ ~is_daily_game_time
    /\ scores # <<>>
    /\ "u1" \in DOMAIN current_games
    /\ IsRoundStart(reply)
    /\ ~reply[2].scored


\* what the ledger and the session map hold along the script of the scenario
ScenarioLedger ==
    /\ step >= 1 => is_daily_game_time
    /\ step \in 2..5 => "u1" \in DOMAIN current_games
    /\ step \in 1..3 => get_score(Self, "u1") = 0
    /\ step = 4 => get_score(Self, "u1") = 3
    /\ step = 5 => get_score(Self, "u1") = 1
    /\ step = 6 =>
        /\ get_score(Self, "u1") = 4
        /\ "u1" \notin DOMAIN current_games
        /\ IsSummary(reply)

\* C4: in the scenario (bank of 5, gate true, a user with no total: Start, a
\* wrong Answer, the correct Answer, Skip, the correct Answer) the user's
\* total is 3 after the first correct answer, 1 after the skip and 4 after
\* the second correct answer, the session is then destroyed, and the final
\* round summary reports a round score of 6: 3 for each of the two correct
\* answers of the round.
C4_ScenarioRoundScoreSix ==
    /\ ScenarioLedger
    /\ step = 6 => reply[1].round_score = 6

\* the scenario as the specification states it: the final round summary
\* reports a round score of 3
C4_ScenarioRoundScoreThree ==
    /\ ScenarioLedger
    /\ step = 6 => reply[1].round_score = 3

C4_Witness ==
    /\ step = 6
    /\ tally = EmptyMap
    /\ scores = <<<<"u1", 4>>>>
    /\ reply = <<TextCorrectEnd(reply[1].answer, 4, 2 * CorrectPoints)>>

\* C6: on the same messages, samples and write outcomes, the run with the
\* gate false throughout has at every moment the session map of the run with
\* the gate true throughout (the same users in a game, each with the same
\* questions, index and round score), and no step of the run with the gate
\* false changes its ledger.
C6_GateFalseRunHasSameSessions ==
    /\ [](shadow.current_games = current_games)
    /\ [][shadow'.scores = shadow.scores]_vars

C6_Witness ==
    /\ is_daily_game_time
    /\ ~shadow.is_daily_game_time
    /\ "u1" \in DOMAIN current_games
    /\ current_games["u1"].current_index = 2
    /\ current_games["u1"].score = CorrectPoints
    /\ shadow.current_games["u1"] = current_games["u1"]
    /\ scores = <<<<"u1", CorrectPoints + SkipPoints>>>>
    /\ shadow.scores = <<>>

\* no two entries of the ledger have the same total
TotalsDistinct ==
    \A i, j \in DOMAIN scores : i # j => scores[i][2] # scores[j][2]

\* the rank the handler's reply to a score query of session_id reports
RankReplyOf(session_id) ==
    on_handle_context(Self, Ctx("TEXT", "#score", 0, session_id, MsgPlain),
                      <<>>, "ok", "ok").reply[1].rank

\* the totals the handler's reply to a leaderboard query lists, in its order
RankReplyTotals ==
    LET rep == on_handle_context(Self, Ctx("TEXT", "#rank", 0, "u1", MsgPlain),
                                 <<>>, "ok", "ok").reply[1]
    IN  IF rep.text = "rank"
        THEN [i \in DOMAIN rep.entries |-> rep.entries[i][2]]
        ELSE <<>>

\* C7: a user without a ledger entry is reported rank 0; and when the totals
\* of the ledger are pairwise distinct, every top-N list is in strictly
\* descending order of total, and a user reported rank r is at position r
\* of every top-N list with N >= r (and the user at position r is reported
\* rank r); the leaderboard reply lists the totals of the top-10 list.
C7_LeaderboardAndRankAgree ==
    /\ \A session_id \in RankUsers \ Keys(scores) :
            RankReplyOf(session_id) = 0
    /\ TotalsDistinct =>
        /\ \A limit \in 1..TopLimit :
              LET top == get_top_players(Self, limit)
              IN  /\ \A i, j \in DOMAIN top : i < j => top[i][2] > top[j][2]
                  /\ \A session_id \in Keys(scores) :
                        LET r == RankReplyOf(session_id)
                        IN  /\ r \in 1..Len(scores)
                            /\ limit >= r =>
                                  /\ r \in DOMAIN top
                                  /\ top[r][2] = get_score(Self, session_id)
                                  /\ top[r][1] = get_username(Self, session_id)
                  /\ \A r \in DOMAIN top, session_id \in Keys(scores) :
                        top[r][2] = get_score(Self, session_id) =>
                            RankReplyOf(session_id) = r
        /\ LET top == get_top_players(Self, TopLimit)
           IN  RankReplyTotals = [i \in DOMAIN top |-> top[i][2]]

C7_Witness ==
    /\ Len(scores) = 3
    /\ TotalsDistinct
    /\ scores[1][2] = SkipPoints
    /\ reply = <<TextScore(SkipPoints, 3)>>


\* the outcomes of a write that fails
FailedWrites == {"no_open", "torn"}

\* C11: when the write of scores.json fails during a correct Answer or a
\* Skip handled in a session with the gate true, the handler does not raise,
\* the total in memory includes the points, and the ledger, the session map,
\* the reply and the action are the ones of the call whose write succeeds.
C11_FailedLedgerWriteIsSwallowed ==
    is_daily_game_time =>
    \A session_id \in DOMAIN current_games :
    \A verb \in ScoringVerbs, arg \in Texts, msg \in DispatchMsgs :
        LET ctx == Ctx("TEXT", verb, arg, session_id, msg)
        IN  (WellFormed("TEXT", verb, arg)
                /\ (IsCorrectAnswer(ctx) \/ IsSkip(ctx))) =>
            \A scores_write \in FailedWrites :
            \A names_write \in NamesWrites(ctx, WriteOutcomes) :
               LET failed == on_handle_context(Self, ctx, <<>>, scores_write,
                                               names_write)
                   saved == on_handle_context(Self, ctx, <<>>, "ok",
                                              names_write)
               IN  /\ ~failed.raised
                   /\ get_score(failed.self, session_id)
                         = get_score(Self, session_id) + PointsOf(ctx)
                   /\ failed.self.scores = saved.self.scores
                   /\ failed.self.current_games = saved.self.current_games
                   /\ failed.reply = saved.reply
                   /\ failed.reply # NoReply
                   /\ failed.action = saved.action

\* a correct answer was scored, and the write of the ledger was torn
C11_Witness ==
    /\ is_daily_game_time
    /\ scores = <<<<"u1", CorrectPoints>>>>
    /\ scores_file = FileCorrupt
    /\ "u1" \in DOMAIN current_games
    /\ current_games["u1"].current_index = 1
    /\ Len(reply) = 3
    /\ reply[1] = TextCorrect(reply[1].answer, CorrectPoints)

\* the generic reply the specification gives to a failure
TextTryAgain == [type |-> "TEXT", text |-> "try_again_later"]

\* C12: no exception leaves the handler, and a text message that makes the
\* handling fail (one whose kwargs hold no msg to read the nickname from) is
\* answered with the generic 'try again later' text.
C12_UnexpectedFailureIsAnswered ==
    /\ ~raised
    /\ \A session_id \in Users, verb \in Verbs, arg \in Texts :
          WellFormed("TEXT", verb, arg) =>
          LET ctx == Ctx("TEXT", verb, arg, session_id, NoMsg)
              r == on_handle_context(Self, ctx, <<>>, "ok", "ok")
          IN  /\ ~r.raised
              /\ r.reply = <<TextTryAgain>>

\* the display name a message carries for its sender, the default if none
ObservedName(msg) ==
    IF msg.has_nickname THEN msg.actual_user_nickname ELSE UnknownUser

\* handling a text message with one of the msgs: the name map then holds the
\* observed name for the sender, usernames.json is written exactly when that
\* name differs from the stored one, and a message that is no command changes
\* nothing else and sets no reply
NameUpserted(msgs) ==
    \A session_id \in Users, verb \in Verbs, arg \in Texts, msg \in msgs :
        WellFormed("TEXT", verb, arg) =>
        LET ctx == Ctx("TEXT", verb, arg, session_id, msg)
            stored == /\ session_id \in DOMAIN usernames
                      /\ usernames[session_id] = ObservedName(msg)
        IN  \A round_questions \in Samples(ctx) :
            \A scores_write \in WriteOutcomes, names_write \in WriteOutcomes :
               LET r == on_handle_context(Self, ctx, round_questions,
                                          scores_write, names_write)
               IN  /\ ~r.raised
                   /\ session_id \in DOMAIN r.self.usernames
                   /\ r.self.usernames[session_id] = ObservedName(msg)
                   /\ r.self.usernames_file
                         = IF stored THEN usernames_file
                           ELSE WriteFile(usernames_file,
                                          json_dump_names(r.self.usernames),
                                          names_write)
                   /\ verb = "other" =>
                         /\ r.reply = NoReply
                         /\ r.action = "CONTINUE"
                         /\ r.self.current_games = current_games
                         /\ r.self.scores = scores
                         /\ r.self.scores_file = scores_file
                         /\ r.self.is_daily_game_time = is_daily_game_time
                         /\ r.self.questions = questions

\* C13: for every inbound text message, command or not, whatever the game
\* state of its sender: after the handling the name map holds for the sender
\* the display name observed in the message (the default name if it carries
\* none), usernames.json is written only when that name differs from the
\* stored one, and a message that is no command changes nothing else and
\* sets no reply.
C13_EveryTextMessageUpsertsTheName == NameUpserted(AllMsgs)

\* ledgers to persist and reload: one to three users, in every order, with
\* totals of one digit and of several, negative, zero and positive
RoundTripTotals == {-12, -2, 0, 3, 10, 105}
RoundTripLedgers ==
    {d \in UNION {[1..n -> RankUsers \X RoundTripTotals] :
                    n \in 0..Cardinality(RankUsers)} :
        \A i, j \in DOMAIN d : i # j => d[i][1] # d[j][1]}
RoundTripNames ==
    UNION {[users -> Nicknames \cup {UnknownUser}] : users \in SUBSET RankUsers}

\* a ledger and a name map that are written and loaded come back as they
\* were
RoundTrip ==
    /\ \A d \in RoundTripLedgers :
          load_scores(WriteFile(FileMissing, json_dump_scores(d), "ok")) = d
    /\ \A m \in RoundTripNames :
          load_usernames(WriteFile(FileMissing, json_dump_names(m), "ok")) = m

\* C14: a ledger (a name map) that is saved and then loaded is the mapping
\* that was saved; and in a run whose writes succeed, a process started on
\* the files on disk loads the ledger and the name map that are in memory,
\* at every moment.
C14_ReloadGivesWhatWasSaved ==
    /\ RoundTrip
    /\ load_scores(save_scores(Self, "ok").scores_file) = scores
    /\ load_usernames(save_usernames(Self, "ok").usernames_file) = usernames
    /\ IdiomGame_init(questions, scores_file, usernames_file).scores = scores
    /\ IdiomGame_init(questions, scores_file, usernames_file).usernames
          = usernames

\* the process restarted inside the window on a ledger with a negative total
C14_Witness ==
    /\ in_window
    /\ ~is_daily_game_time
    /\ current_games = EmptyMap
    /\ reply = NoReply
    /\ scores = <<<<"u1", SkipPoints>>>>
    /\ usernames = [u \in Users |-> "amy"]
    /\ scores_file.state = "ok"

\* C15: in every reachable state the current index of every live session is
\* in 0..K-1 (K = 3) and is the position of one of the K questions of the
\* session; and no step lowers the index of a session or raises it by more
\* than one.
C15_IndexInRangeAndStepsByOne ==
    /\ [](\A session_id \in DOMAIN current_games :
            LET game == current_games[session_id]
            IN  /\ game.current_index \in 0..(QuestionsPerRound - 1)
                /\ Len(game.questions) = QuestionsPerRound
                /\ game.current_index + 1 \in DOMAIN game.questions)
    /\ [][\A session_id \in DOMAIN current_games \cap DOMAIN current_games' :
            LET before == current_games[session_id].current_index
                after == current_games'[session_id].current_index
            IN  after = before \/ after = before + 1]_vars

\* a session on its last question, reached by a correct answer and a skip
C15_Witness ==
    /\ "u1" \in DOMAIN current_games
    /\ current_games["u1"].current_index = QuestionsPerRound - 1
    /\ tally["u1"] = [correct |-> 1, skipped |-> 1]
    /\ Len(reply) = 3
    /\ reply[3] = TextInfo(QuestionsPerRound)

\* C16: a Skip of a user in a game at an index below K-1 raises the index by
\* exactly one and keeps the session, with its questions and its round
\* score; a Skip at index K-1 removes the session and reports its round
\* score as it was; in both cases the total of the ledger changes by what
\* add_score(session_id, -2) does (-2 with the gate true, nothing with the
\* gate false) and the round score is not lowered.
C16_SkipAdvancesOrEndsAndSparesRoundScore ==
    \A session_id \in DOMAIN current_games, msg \in DispatchMsgs :
        LET ctx == Ctx("TEXT", "#skip", 0, session_id, msg)
            game == current_games[session_id]
        IN  \A scores_write \in ScoresWrites(ctx, WriteOutcomes) :
            \A names_write \in NamesWrites(ctx, WriteOutcomes) :
               LET r == on_handle_context(Self, ctx, <<>>, scores_write,
                                          names_write)
                   games == r.self.current_games
               IN  /\ get_score(r.self, session_id)
                         = get_score(Self, session_id)
                             + (IF is_daily_game_time THEN SkipPoints ELSE 0)
                   /\ game.current_index < QuestionsPerRound - 1 =>
                         /\ session_id \in DOMAIN games
                         /\ games[session_id]
                               = [game EXCEPT !.current_index = @ + 1]
                         /\ r.reply[1]
                               = TextSkip(get_score(r.self, session_id))
                   /\ game.current_index = QuestionsPerRound - 1 =>
                         /\ session_id \notin DOMAIN games
                         /\ r.reply = <<TextSkipEnd(
                                           get_score(r.self, session_id),
                                           game.score)>>
                   /\ \A other \in DOMAIN current_games \ {session_id} :
                         /\ other \in DOMAIN games
                         /\ games[other] = current_games[other]

\* two correct answers and then the skip of the last question, all scored
C16_Witness ==
    /\ is_daily_game_time
    /\ "u1" \notin DOMAIN current_games
    /\ scores = <<<<"u1", 2 * CorrectPoints + SkipPoints>>>>
    /\ reply = <<TextSkipEnd(2 * CorrectPoints + SkipPoints,
                             2 * CorrectPoints)>>

\* C17: at every moment, also when a write stops midway, scores.json and
\* usernames.json hold a complete document (the one from before the write or
\* the one after it), never an empty or partial one; so once a process
\* started on scores.json would load a ledger that is not empty, it would at
\* every later moment.
C17_PersistedLedgerIsNeverPartial ==
    /\ [](scores_file.state # "corrupt" /\ usernames_file.state # "corrupt")
    /\ [][/\ scores_file' \in {scores_file, FileOk(json_dump_scores(scores'))}
          /\ load_scores(scores_file) # <<>> =>
                load_scores(scores_file') # <<>>]_vars

\* the message of a call
CallCtx(call) == Ctx("TEXT", call.verb, call.arg, RaceUser, MsgPlain)

\* what handling first the message of call first and then the message of
\* call second, one after the other, leaves of the object shadow
OneAfterTheOther(first, second) ==
    on_handle_context(
        on_handle_context(shadow, CallCtx(threads.calls[first]), <<>>, "ok",
                          "ok").self,
        CallCtx(threads.calls[second]), <<>>, "ok", "ok").self

\* C18: when two calls of the handler for messages of one user run at the
\* same time, no call ends in an exception (the session is not deleted
\* twice), the current index of a live session never exceeds K-1, and when
\* both calls have returned the ledger, the ledger on disk and the session
\* map are the ones that handling the two messages one after the other, in
\* one order or the other, leaves (no question is scored twice).
C18_ConcurrentCallsAreSerial ==
    /\ \A c \in Calls : threads.calls[c].pc # "raised"
    /\ \A session_id \in DOMAIN current_games :
          current_games[session_id].current_index <= QuestionsPerRound - 1
    /\ (\A c \in Calls : threads.calls[c].pc = "done") =>
          \E first \in Calls :
             LET serial == OneAfterTheOther(first, CHOOSE c \in Calls : c # first)
             IN  /\ scores = serial.scores
                 /\ scores_file = serial.scores_file
                 /\ current_games = serial.current_games

\* C19: whatever message of a user A the handler is called with, for every
\* sample and every write outcome, every other user B has afterwards the
\* session B had (none, or the same questions, index and round score), the
\* ledger total B had (none or the same) and the stored name B had.
C19_CommandsOfOneUserLeaveTheOthersAlone ==
    \A type \in ContextTypes, verb \in Verbs, arg \in Texts :
    \A session_id \in TwoUsers, msg \in AllMsgs :
        WellFormed(type, verb, arg) =>
        LET ctx == Ctx(type, verb, arg, session_id, msg)
        IN  \A round_questions \in Samples(ctx) :
            \A scores_write \in ScoresWrites(ctx, WriteOutcomes) :
            \A names_write \in NamesWrites(ctx, WriteOutcomes) :
               LET r == on_handle_context(Self, ctx, round_questions,
                                          scores_write, names_write).self
               IN  \A other \in TwoUsers \ {session_id} :
                     /\ other \in DOMAIN r.current_games
                           <=> other \in DOMAIN current_games
                     /\ other \in DOMAIN current_games =>
                           r.current_games[other] = current_games[other]
                     /\ HasKey(r.scores, other) <=> HasKey(scores, other)
                     /\ get_score(r, other) = get_score(Self, other)
                     /\ other \in DOMAIN r.usernames
                           <=> other \in DOMAIN usernames
                     /\ other \in DOMAIN usernames =>
                           r.usernames[other] = usernames[other]

\* both users are in a game, each after a scored correct answer, the one of
\* u1 handled last
C19_Witness ==
    /\ DOMAIN current_games = TwoUsers
    /\ \A u \in TwoUsers :
          /\ current_games[u].current_index = 1
          /\ current_games[u].score = CorrectPoints
    /\ scores = <<<<"u2", CorrectPoints>>, <<"u1", CorrectPoints>>>>
    /\ usernames = [u \in TwoUsers |-> UnknownUser]
    /\ step = MaxMessages

\* C20: the round score of every live session is a non-negative multiple of
\* 3 and at most 3 times the current index; and from the Start of a round
\* on, until the user's next Start, the user's total differs from the total
\* at that Start by at least -2*K and at most 3*K.
C20_RoundScoreAndRoundDeltaBounded ==
    /\ \A session_id \in DOMAIN current_games :
          LET game == current_games[session_id]
          IN  /\ game.score >= 0
              /\ game.score % CorrectPoints = 0
              /\ game.score <= CorrectPoints * game.current_index
    /\ \A session_id \in DOMAIN round_start :
          LET delta == get_score(Self, session_id) - round_start[session_id]
          IN  /\ delta >= SkipPoints * QuestionsPerRound
              /\ delta <= CorrectPoints * QuestionsPerRound

\* a second round of three scored correct answers, begun after a round of
\* three scored skips
C20_Witness ==
    /\ step = 2
    /\ "u1" \notin DOMAIN current_games
    /\ round_start = [u \in Users |-> SkipPoints * QuestionsPerRound]
    /\ scores = <<<<"u1", (SkipPoints + CorrectPoints) * QuestionsPerRound>>>>
    /\ reply = <<TextCorrectEnd(reply[1].answer,
                                (SkipPoints + CorrectPoints) * QuestionsPerRound,
                                CorrectPoints * QuestionsPerRound)>>

=============================================================================
